---- MODULE Spec2Model ----
(***************************************************************************)
(* Notification dispatch subsystem of the fact-check bot (src/main.py):    *)
(* the subscriber registry and its JSON snapshot, the repeating job         *)
(* send_hoax_notification with its dedup cursor last_sent_article_url, the  *)
(* fan-out with pruning of failing recipients, and the command and button   *)
(* handlers that mutate the registry.                                       *)
(*                                                                          *)
(* Scheduling: handlers and the job are coroutines on one event loop, so a  *)
(* step of the model is the code between two awaits.  Updates are handled   *)
(* one at a time (Application.builder() default), the job runs as its own   *)
(* task and interleaves with a handler at the handler's awaits.  A run of   *)
(* the job starts only when the previous run has ended (interval 14400 s,   *)
(* one instance of a job at a time).                                        *)
(*                                                                          *)
(* Environment: the feed answers anything, a send_message may raise, the    *)
(* process may be killed anywhere (SpecCrash).  Not modelled: an OSError    *)
(* from save_subscribers, and a failing reply of a command handler (it      *)
(* comes after the handler's last access to the registry).                  *)
(***************************************************************************)
EXTENDS Integers, Sequences, FiniteSets, Bags, TLC

\* ---- bounds ----
NumRecipients == 2
NumItems == 2
MaxPage == 1
RecursionLimit == 2

\* last_sent_article_url = None
None == 0

Recipients == 1..NumRecipients
Items == 1..NumItems

VARIABLES
    proc,                   \* "running" | "crashed" | "fatal"
    subscribers,            \* the global set subscribers
    disk,                   \* subscribers.json
    last_sent_article_url,  \* the dedup cursor
    jobPc,                  \* send_hoax_notification: "Idle" | "Dispatching"
    pending,                \* chat ids of list(subscribers) not yet iterated
    btn,                    \* the button_handler call stack
    obs,                    \* the fan-out in progress or just ended, as observed
    sent,                   \* article urls fanned out to a chat in this process lifetime
    persist,                \* the save_subscribers call the process died in
    event                   \* the step just taken: what ran, for whom, its reply, how it ended

vars == <<proc, subscribers, disk, last_sent_article_url, jobPc, pending, btn,
          obs, sent, persist, event>>

\* What the next run of the job and the next handler start from
prog == <<proc, subscribers, disk, last_sent_article_url, jobPc, pending, btn>>

\* ---- subscribers.json ----
NoFile == [kind |-> "absent", data |-> EmptyBag]

\* json.dump(list(subscribers), f) on a file opened with 'w'
save_subscribers(subs) == [kind |-> "json", data |-> SetToBag(subs)]

\* What the file holds if the process dies inside save_subscribers: open(.., 'w')
\* has truncated it, and any part of the list may have been flushed.
TornWrites(subs) ==
    {[kind |-> "torn", data |-> SetToBag(T)] : T \in (SUBSET subs \ {subs}) \cup {{}}}
        \cup {save_subscribers(subs)}

\* set(json.load(f)); FileNotFoundError gives set()
load_subscribers(d) == IF d.kind = "absent" THEN {} ELSE BagToSet(d.data)

\* json.load raises JSONDecodeError, which load_subscribers does not catch
LoadFails(d) == d.kind = "torn"

\* ---- registry mutations ----
\* subscribers.add(chat_id); save_subscribers()
Add(subs, d, chat) ==
    [subs |-> subs \cup {chat}, disk |-> save_subscribers(subs \cup {chat})]

DiscardNoSave(subs, d, chat) == [subs |-> subs \ {chat}, disk |-> d]

\* subscribers.discard(chat_id); save_subscribers()
Discard(subs, d, chat) ==
    [subs |-> subs \ {chat}, disk |-> save_subscribers(subs \ {chat})]

RemainingAfterRaise(pend, r, ok) == IF ok THEN pend \ {r} ELSE {}

\* `for chat_id in list(subscribers): try: ... except Exception: ...`: the except is
\* inside the loop, so the loop goes on to the next chat id whatever the outcome
Remaining(pend, r, ok) == pend \ {r}

LiveSetFromList(subs, snap) == subs \cap snap

\* The set pruned after a failed send is the global `subscribers` as it is now, not
\* the list(subscribers) being iterated
LiveSet(subs, snap) == subs

\* ---- feed ----
SeqsUpTo(n) == UNION {[1..k -> Items] : k \in 0..n}

\* What NewsAPI answers to a request for pageSize = count articles
Responses(count) ==
    LET most == IF count < MaxPage THEN count ELSE MaxPage
    IN  {[status |-> "error", total |-> 0, articles |-> <<>>]}
            \cup {[status |-> "ok", total |-> 0, articles |-> <<>>]}
            \cup {[status |-> "ok", total |-> 1, articles |-> a] : a \in SeqsUpTo(most)}

\* The return value: None, or the list of articles (each article is its url)
fetch_latest_hoaxes(resp) ==
    IF resp.status = "error" THEN [isNone |-> TRUE, articles |-> <<>>]
    ELSE IF resp.total > 0 THEN [isNone |-> FALSE, articles |-> resp.articles]
    ELSE [isNone |-> TRUE, articles |-> <<>>]

\* `if latest_articles:`
Truthy(r) == ~r.isNone /\ r.articles # <<>>

FetchKind(resp) ==
    IF resp.status = "error" THEN "error"
    ELSE IF resp.total = 0 THEN "no_results"
    ELSE IF resp.articles = <<>> THEN "empty"
    ELSE "item"

\* `if latest_article and latest_article.get('url') != last_sent_article_url:`
IsNew(r, cursor) == Truthy(r) /\ r.articles[1] # cursor

NextCursorResets(r, cursor) ==
    IF Truthy(r) THEN (IF r.articles[1] # cursor THEN r.articles[1] ELSE cursor)
    ELSE None

\* `last_sent_article_url = latest_article.get('url')` under the test above
NextCursor(r, cursor) == IF IsNew(r, cursor) THEN r.articles[1] ELSE cursor

CursorAfterListAdvances(r, cursor) == IF Truthy(r) THEN r.articles[1] ELSE cursor

\* latest_hoaxes_command never assigns last_sent_article_url
CursorAfterList(r, cursor) == cursor

\* ---- initial state: main() has run load_subscribers() ----
Zero(S) == [x \in S |-> 0]
NoButton == [chat |-> 0, data |-> "none", depth |-> 0, mutations |-> 0]
NoPersist == [active |-> FALSE, old |-> NoFile, new |-> NoFile]
Ev(op, arg, res, done) == [op |-> op, arg |-> arg, res |-> res, done |-> done]

\* obs: snapshot is list(subscribers) of the fan-out, attempts the send_message calls
\* per chat id, failed the chat ids whose send raised, cmdSince whether a handler
\* changed the registry since the fan-out began, addedDuring the chat ids a handler
\* added during it (and nothing removed since), done whether the loop has ended.
\* The observation ends with the first step after the fan-out.
NoObs == [snapshot |-> {}, attempts |-> Zero(Recipients), failed |-> {},
          cmdSince |-> FALSE, addedDuring |-> {}, done |-> FALSE]

Init ==
    /\ disk \in {NoFile} \cup {save_subscribers(S) : S \in SUBSET Recipients}
    /\ subscribers = load_subscribers(disk)
    /\ proc = "running"
    /\ last_sent_article_url = None
    /\ jobPc = "Idle"
    /\ pending = {}
    /\ btn = NoButton
    /\ obs = NoObs
    /\ sent = {}
    /\ persist = NoPersist
    /\ event = Ev("start", 0, "loaded", "")

\* The process is gone: nothing of its memory is left, the file is `d`.
Die(d, p) ==
    /\ proc' = "crashed"
    /\ disk' = d
    /\ subscribers' = {}
    /\ last_sent_article_url' = None
    /\ jobPc' = "Idle"
    /\ pending' = {}
    /\ btn' = NoButton
    /\ obs' = NoObs
    /\ sent' = {}
    /\ persist' = p
    /\ event' = Ev("crash", 0, IF p.active THEN "in_save" ELSE "elsewhere", "")

\* What a handler's step does to the observation of the fan-out.
Observed(chat, mutated, added) ==
    IF jobPc # "Dispatching" THEN NoObs
    ELSE IF ~mutated THEN obs
    ELSE [obs EXCEPT !.cmdSince = TRUE,
                     !.addedDuring = IF added THEN @ \cup {chat} ELSE @ \ {chat}]

\* A registry mutation `m` (the result of Subscribe or Unsubscribe) made by a handler,
\* with its save.  `ev` and `b` are the event and the button stack the handler leaves.
HandlerMutates(m, chat, added, ev, b) ==
    /\ subscribers' = m.subs
    /\ disk' = m.disk
    /\ obs' = Observed(chat, TRUE, added)
    /\ event' = ev
    /\ btn' = b
    /\ UNCHANGED <<proc, last_sent_article_url, jobPc, pending, sent, persist>>

\* A handler that leaves the registry alone.
HandlerReplies(ev, b) ==
    /\ event' = ev
    /\ btn' = b
    /\ obs' = Observed(0, FALSE, FALSE)
    /\ UNCHANGED <<proc, subscribers, disk, last_sent_article_url, jobPc, pending,
                   sent, persist>>

SubscribeUnchecked(subs, d, chat) ==
    [subs |-> subs \cup {chat}, disk |-> save_subscribers(subs \cup {chat}),
     reply |-> "added", mutated |-> TRUE]

\* `if chat_id in subscribers: <already> else: subscribers.add(chat_id); save_subscribers()`
Subscribe(subs, d, chat) ==
    IF chat \in subs
    THEN [subs |-> subs, disk |-> d, reply |-> "already_present", mutated |-> FALSE]
    ELSE [subs |-> Add(subs, d, chat).subs, disk |-> Add(subs, d, chat).disk,
          reply |-> "added", mutated |-> TRUE]

\* `if chat_id in subscribers: subscribers.discard(chat_id); save_subscribers() else: <absent>`
Unsubscribe(subs, d, chat) ==
    IF chat \in subs
    THEN [subs |-> Discard(subs, d, chat).subs, disk |-> Discard(subs, d, chat).disk,
          reply |-> "removed", mutated |-> TRUE]
    ELSE [subs |-> subs, disk |-> d, reply |-> "was_absent", mutated |-> FALSE]

\* ---- command handlers ----
\* Updates are processed one at a time: no handler starts while button_handler runs.
CommandReady == proc = "running" /\ btn.depth = 0

subscribe_command(c) ==
    /\ CommandReady
    /\ LET m == Subscribe(subscribers, disk, c)
           ev == Ev("subscribe", c, m.reply, "command")
       IN  IF m.mutated THEN HandlerMutates(m, c, TRUE, ev, btn)
           ELSE HandlerReplies(ev, btn)

unsubscribe_command(c) ==
    /\ CommandReady
    /\ LET m == Unsubscribe(subscribers, disk, c)
           ev == Ev("unsubscribe", c, m.reply, "command")
       IN  IF m.mutated THEN HandlerMutates(m, c, FALSE, ev, btn)
           ELSE HandlerReplies(ev, btn)

\* count=5 of latest_hoaxes_command, count=1 of send_hoax_notification
ListCount == 5
PollCount == 1

latest_hoaxes_command(resp) ==
    /\ CommandReady
    /\ LET r == fetch_latest_hoaxes(resp)
       IN  /\ last_sent_article_url' = CursorAfterList(r, last_sent_article_url)
           /\ event' = Ev("hoaxterbaru", 0, IF Truthy(r) THEN "listed" ELSE "failed",
                          "command")
    /\ obs' = Observed(0, FALSE, FALSE)
    /\ UNCHANGED <<proc, subscribers, disk, jobPc, pending, btn, sent, persist>>

\* ---- button_handler ----
\* callback_data; the buttons of the other features ("fitur_tentang", ...) touch no
\* state and return, like "main_menu"
ButtonData == {"main_menu", "fitur_notifikasi", "subscribe", "unsubscribe"}

\* A callback query arrives: button_handler is entered and waits in `await query.answer()`.
ButtonPress(c, data) ==
    /\ CommandReady
    /\ HandlerReplies(Ev("press", 0, "", ""),
                      [chat |-> c, data |-> data, depth |-> 1, mutations |-> 0])

\* `await button_handler(update, context)` with the same update, from the frame at
\* b.depth: a new frame, or RecursionError through every frame.
Reenter(b, mutated) ==
    IF b.depth >= RecursionLimit THEN NoButton
    ELSE [b EXCEPT !.depth = @ + 1, !.mutations = IF mutated THEN @ + 1 ELSE @]

HowFrameEnds(b) == IF b.depth >= RecursionLimit THEN "RecursionError" ELSE "reentered"

\* The frame on top runs from `await query.answer()` to its next await or its return.
ButtonFrame ==
    /\ proc = "running"
    /\ btn.depth >= 1
    /\ LET c == btn.chat
       IN  CASE btn.data = "subscribe" ->
                  LET m == Subscribe(subscribers, disk, c)
                      ev == Ev("subscribe", c, m.reply, HowFrameEnds(btn))
                  IN  IF m.mutated
                      THEN HandlerMutates(m, c, TRUE, ev, Reenter(btn, TRUE))
                      ELSE HandlerReplies(ev, Reenter(btn, FALSE))
             [] btn.data = "unsubscribe" ->
                  LET m == Unsubscribe(subscribers, disk, c)
                      ev == Ev("unsubscribe", c, m.reply, HowFrameEnds(btn))
                  IN  IF m.mutated
                      THEN HandlerMutates(m, c, FALSE, ev, Reenter(btn, TRUE))
                      ELSE HandlerReplies(ev, Reenter(btn, FALSE))
             [] btn.data = "fitur_notifikasi" ->
                  HandlerReplies(Ev("button", 0, "notification_view", "returned"), NoButton)
             [] OTHER ->
                  HandlerReplies(Ev("button", 0, "", "returned"), NoButton)

\* `await query.answer()` raises (a Telegram or network error): the exception leaves
\* every frame of the handler.
ButtonAnswerFails ==
    /\ proc = "running"
    /\ btn.depth >= 1
    /\ HandlerReplies(Ev("button", 0, "", "TelegramError"), NoButton)

\* ---- send_hoax_notification ----
\* One run of the job up to its first `await context.bot.send_message(...)`.
\* run_repeating starts a run only when the previous one has ended.
Tick(resp) ==
    /\ proc = "running"
    /\ jobPc = "Idle"
    /\ LET r == fetch_latest_hoaxes(resp)
       IN  /\ last_sent_article_url' = NextCursor(r, last_sent_article_url)
           /\ event' = Ev("tick", IF Truthy(r) THEN r.articles[1] ELSE None,
                          FetchKind(resp),
                          IF IsNew(r, last_sent_article_url) THEN "fanout" ELSE "no_fanout")
           /\ IF IsNew(r, last_sent_article_url)
              THEN /\ sent' = IF subscribers = {} THEN sent ELSE sent \cup {r.articles[1]}
                   /\ pending' = subscribers
                   /\ jobPc' = IF subscribers = {} THEN "Idle" ELSE "Dispatching"
                   /\ obs' = [NoObs EXCEPT !.snapshot = subscribers,
                                           !.done = (subscribers = {})]
              ELSE /\ obs' = NoObs
                   /\ UNCHANGED <<sent, pending, jobPc>>
    /\ UNCHANGED <<proc, subscribers, disk, btn, persist>>

\* The pending send_message to `r` ends; the loop goes on to its next await.  The
\* order of list(subscribers) is arbitrary, so `r` is any chat id still pending.
Deliver(r, ok) ==
    /\ proc = "running"
    /\ jobPc = "Dispatching"
    /\ r \in pending
    /\ pending' = Remaining(pending, r, ok)
    /\ jobPc' = IF Remaining(pending, r, ok) = {} THEN "Idle" ELSE "Dispatching"
    /\ IF ok
       THEN /\ event' = Ev("deliver", 0, "sent", "")
            /\ obs' = [obs EXCEPT !.attempts[r] = @ + 1,
                                  !.done = (Remaining(pending, r, ok) = {})]
            /\ UNCHANGED <<proc, subscribers, disk, last_sent_article_url, btn,
                           sent, persist>>
       ELSE LET m == Discard(LiveSet(subscribers, obs.snapshot), disk, r)
            IN  /\ event' = Ev("deliver", 0, "failed", "")
                /\ subscribers' = m.subs
                /\ disk' = m.disk
                /\ obs' = [obs EXCEPT !.attempts[r] = @ + 1,
                                      !.failed = @ \cup {r},
                                      !.addedDuring = @ \ {r},
                                      !.done = (Remaining(pending, r, ok) = {})]
                /\ UNCHANGED <<proc, last_sent_article_url, btn, sent, persist>>

\* ---- process lifetime ----
\* The process is killed anywhere outside save_subscribers.
Crash ==
    /\ proc = "running"
    /\ Die(disk, NoPersist)

\* The sets that the steps enabled now would hand to save_subscribers.
SavesInReach ==
    {Subscribe(subscribers, disk, c).subs :
        c \in {x \in Recipients : CommandReady /\ Subscribe(subscribers, disk, x).mutated}}
    \cup {Unsubscribe(subscribers, disk, c).subs :
        c \in {x \in Recipients : CommandReady /\ Unsubscribe(subscribers, disk, x).mutated}}
    \cup {Subscribe(subscribers, disk, c).subs :
        c \in {x \in Recipients : /\ btn.depth >= 1 /\ btn.data = "subscribe" /\ btn.chat = x
                                  /\ Subscribe(subscribers, disk, x).mutated}}
    \cup {Unsubscribe(subscribers, disk, c).subs :
        c \in {x \in Recipients : /\ btn.depth >= 1 /\ btn.data = "unsubscribe" /\ btn.chat = x
                                  /\ Unsubscribe(subscribers, disk, x).mutated}}
    \cup {Discard(LiveSet(subscribers, obs.snapshot), disk, r).subs :
        r \in {x \in Recipients : jobPc = "Dispatching" /\ x \in pending}}

\* The process is killed inside a save_subscribers call.
CrashInSave ==
    /\ proc = "running"
    /\ \E subs \in SavesInReach : \E d \in TornWrites(subs) :
           Die(d, [active |-> TRUE, old |-> disk, new |-> save_subscribers(subs)])

\* main() again: load_subscribers(), a fresh cursor, the job scheduled anew.
Restart ==
    /\ proc = "crashed"
    /\ persist' = NoPersist
    /\ IF LoadFails(disk)
       THEN /\ proc' = "fatal"
            /\ event' = Ev("start", 0, "JSONDecodeError", "")
            /\ UNCHANGED subscribers
       ELSE /\ proc' = "running"
            /\ subscribers' = load_subscribers(disk)
            /\ event' = Ev("start", 0, "loaded", "")
    /\ UNCHANGED <<disk, last_sent_article_url, jobPc, pending, btn, obs, sent>>

Next ==
    \/ \E c \in Recipients : subscribe_command(c)
    \/ \E c \in Recipients : unsubscribe_command(c)
    \/ \E resp \in Responses(ListCount) : latest_hoaxes_command(resp)
    \/ \E c \in Recipients, data \in ButtonData : ButtonPress(c, data)
    \/ ButtonFrame
    \/ ButtonAnswerFails
    \/ \E resp \in Responses(PollCount) : Tick(resp)
    \/ \E r \in Recipients, ok \in BOOLEAN : Deliver(r, ok)

Spec == Init /\ [][Next]_vars

\* The same program with the process killed and started again.
NextCrash ==
    \/ Next
    \/ Crash
    \/ CrashInSave
    \/ Restart

SpecCrash == Init /\ [][NextCrash]_vars

\* ---- properties ----
FailedFetch == {"error", "no_results", "empty"}

\* C1: over any sequence of runs of the job within one process lifetime, no article
\* url is fanned out to the subscribers more than once, also when it comes back after
\* another url was fanned out (A, B, A).
C1_NoItemFannedOutTwice ==
    [][(event'.op = "tick" /\ event'.done = "fanout" /\ pending' # {})
          => event'.arg \notin sent]_vars

\* C2: the first run of the job after process start that fetches an article (cursor
\* unset) sets the cursor to its url and attempts no delivery; a fan-out happens only
\* on a later run, for an article whose url differs from the cursor.
C2_FirstTickSeedsWithoutDelivery ==
    [][/\ (proc = "running" /\ last_sent_article_url = None
              /\ event'.op = "tick" /\ event'.res = "item")
          => (last_sent_article_url' = event'.arg /\ pending' = {} /\ jobPc' = "Idle")
       /\ (event'.op = "tick" /\ pending' # {})
          => (last_sent_article_url # None /\ event'.arg # last_sent_article_url)]_vars

C4_AdditionsSurviveFanout ==
    (proc = "running" /\ obs.done)
        => \A r \in obs.addedDuring :
               /\ r \in subscribers
               /\ disk.kind = "json"
               /\ CopiesIn(r, disk.data) = 1

C4_Witness ==
    /\ proc = "running" /\ obs.done
    /\ obs.addedDuring # {}
    /\ obs.failed # {}
    /\ obs.addedDuring \subseteq subscribers
    /\ obs.addedDuring \cap obs.snapshot = {}

\* C5: whenever the process runs and is between steps (every mutation is saved in the
\* step that makes it), subscribers.json holds exactly the in-memory set subscribers.
C5_SnapshotMatchesRegistry ==
    proc = "running"
        => \/ disk.kind = "json" /\ disk.data = SetToBag(subscribers)
           \/ disk.kind = "absent" /\ subscribers = {}

C5_Witness ==
    /\ proc = "running"
    /\ event.op = "deliver" /\ event.res = "failed"
    /\ subscribers # {}
    /\ disk = save_subscribers(subscribers)

\* C6: if the process dies inside save_subscribers, the file that the next
\* load_subscribers reads is the complete previous snapshot or the complete new one,
\* never an empty or partly written one.
C6_CrashLeavesWholeSnapshot ==
    (proc = "crashed" /\ persist.active)
        => /\ ~LoadFails(disk)
           /\ disk \in {persist.old, persist.new}

\* C7: by command and by button alike, subscribing a chat id that is a member reports
\* "already present" and leaves the set and the file as they are (the chat id occurs
\* once), and unsubscribing a chat id that is no member reports "was absent" and
\* leaves the set and the file as they are.
C7_IdempotentMutations ==
    [][/\ (event'.op = "subscribe" /\ event'.arg \in subscribers)
          => /\ event'.res = "already_present"
             /\ subscribers' = subscribers
             /\ disk' = disk
             /\ CopiesIn(event'.arg, disk'.data) = 1
       /\ (event'.op = "unsubscribe" /\ event'.arg \notin subscribers)
          => /\ event'.res = "was_absent"
             /\ subscribers' = subscribers
             /\ disk' = disk
             /\ CopiesIn(event'.arg, disk'.data) = 0]_vars

C7_Witness ==
    /\ event.op = "subscribe" /\ event.res = "already_present"
    /\ event.done = "reentered"
    /\ event.arg \in subscribers
    /\ CopiesIn(event.arg, disk.data) = 1

\* C8: a run of the job whose fetch fails or returns no article attempts no delivery,
\* leaves the cursor, the registry and the file as they are and ends at once, so that
\* the next run starts from what it would have started from without it.
C8_FailedFetchChangesNothing ==
    [][(event'.op = "tick" /\ event'.res \in FailedFetch)
          => /\ prog' = prog
             /\ jobPc' = "Idle" /\ pending' = {}
             /\ sent' = sent
             /\ event'.done = "no_fanout"]_vars

C8_Witness ==
    /\ event.op = "tick" /\ event.res = "error"
    /\ last_sent_article_url # None
    /\ subscribers # {}
    /\ jobPc = "Idle" /\ pending = {}

\* C9: handling one press of the subscribe or the unsubscribe button changes the
\* registry at most once, refreshes the notification view once and returns, without
\* button_handler being entered again for the same press.
C9_ButtonPressHandledOnce ==
    /\ btn.data \in {"subscribe", "unsubscribe"}
          => (btn.depth <= 1 /\ btn.mutations <= 1)
    /\ (event.op \in {"subscribe", "unsubscribe"} /\ event.done # "command")
          => event.done = "refreshed"

\* C10: the cursor changes only in a run of the job, only to the url of the fetched
\* article, which differs from the cursor, and before any delivery attempt of that
\* run; no command or button handler changes it.
C10_CursorOwnedByDispatchLoop ==
    [][last_sent_article_url' # last_sent_article_url
          => /\ event'.op = "tick" /\ event'.res = "item"
             /\ last_sent_article_url' = event'.arg
             /\ event'.arg # last_sent_article_url
             /\ jobPc = "Idle"
             /\ obs'.attempts = Zero(Recipients)
             /\ pending' = subscribers]_vars

C10_Witness ==
    /\ event.op = "tick" /\ event.done = "fanout"
    /\ last_sent_article_url = event.arg
    /\ jobPc = "Dispatching"
    /\ pending = obs.snapshot
    /\ obs.attempts = Zero(Recipients)

====
